---- MODULE Spec2Model ----
(***************************************************************************)
(* Model of autodiff/graph.py: the expression graph (Var / Op), the graph  *)
(* builder (operator overloads), the two traversals (Var.dfs, Var.bfs) and *)
(* the three passes built on them (Var.value, Var.forward, Var.backward).  *)
(*                                                                         *)
(* Nodes are numbered 1..Len(op) in order of construction.  Every pass is  *)
(* modelled one loop iteration at a time: pc names the loop the running    *)
(* method is in, pending/seen/yielded are the traversal's locals.          *)
(***************************************************************************)
EXTENDS Integers, Sequences, FiniteSets, TLC

VARIABLES
    op,             \* op[n]: class of Var.op ("Val", "Add", ...)
    children,       \* children[n]: Var.children, a list of nodes
    parents,        \* parents[n]: Var.parents, a list of nodes
    eval_value,     \* Var.eval_value
    forward_value,  \* Var.forward_value
    adjoint_value,  \* Var.adjoint_value
    pc,             \* loop the running method is in, "idle" between calls
    self,           \* receiver of the running (or last) call
    wrt,            \* argument of the running (or last) forward call
    pending,        \* dfs/bfs local: the work list
    seen,           \* dfs/bfs local
    yielded,        \* bfs local
    current,        \* bfs local: the node just popped, 0 when none is held
    order,          \* nodes yielded so far by the running (or last) traversal
    done,           \* last completed call whose outcome no assign has outdated
    result,         \* what that call returned
    prev,           \* the completed call before it (same condition)
    passes          \* number of passes started

graph  == <<op, children, parents>>
values == <<eval_value, forward_value, adjoint_value>>
walk   == <<pending, seen, yielded, current, order>>
calls  == <<pc, self, wrt, done, result, prev, passes>>
vars   == <<op, children, parents, eval_value, forward_value, adjoint_value,
           pc, self, wrt, pending, seen, yielded, current, order, done, result,
           prev, passes>>

----------------------------------------------------------------------------
(* Bounds *)

MaxNodes == 3
MaxEvalNodes == 4
MaxBuildNodes == 3
MaxPasses == 2
MaxBackwardPasses == 1

\* values handed to assign, and numeric literals used as operands
Vals == {2, 3}
Literals == {2}

----------------------------------------------------------------------------
(* Floats.  Every number the passes produce from Add/Sub/Neg/Mult over      *)
(* small integers is an integer a double holds exactly; the only other     *)
(* float that occurs is NaN.                                               *)

NaN == [nan |-> TRUE, num |-> 0]
Num(v) == [nan |-> FALSE, num |-> v]

FAdd(a, b) == IF a.nan \/ b.nan THEN NaN ELSE Num(a.num + b.num)
FSub(a, b) == IF a.nan \/ b.nan THEN NaN ELSE Num(a.num - b.num)
FMul(a, b) == IF a.nan \/ b.nan THEN NaN ELSE Num(a.num * b.num)
FNeg(a) == IF a.nan THEN NaN ELSE Num(0 - a.num)

----------------------------------------------------------------------------
(* Graph helpers *)

Nodes == 1..Len(op)
Range(s) == {s[i] : i \in 1..Len(s)}

ArithOps == {"Add", "Sub", "Neg", "Mult"}
EvalOps == {"Add", "Sub", "Mult"}
AllOps == {"Add", "Sub", "Neg", "Mult", "Div", "Pow"}

NoCall == [call |-> "none", self |-> 0, wrt |-> 0, val |-> NaN, adj |-> <<>>]

RECURSIVE Reach(_)
Reach(n) == {n} \cup UNION {Reach(c) : c \in Range(children[n])}

----------------------------------------------------------------------------
(* Var.__init__ *)

Init ==
    /\ op = <<>> /\ children = <<>> /\ parents = <<>>
    /\ eval_value = <<>> /\ forward_value = <<>> /\ adjoint_value = <<>>
    /\ pc = "idle" /\ self = 0 /\ wrt = 0
    /\ pending = <<>> /\ seen = {} /\ yielded = {} /\ current = 0 /\ order = <<>>
    /\ done = "none" /\ result = NaN /\ prev = NoCall
    /\ passes = 0

\* x = Var(name): a fresh leaf, all three slots NaN, operator Val
NewVar(maxn) ==
    /\ pc = "idle"
    /\ Len(op) < maxn
    /\ op' = Append(op, "Val")
    /\ children' = Append(children, <<>>)
    /\ parents' = Append(parents, <<>>)
    /\ eval_value' = Append(eval_value, NaN)
    /\ forward_value' = Append(forward_value, NaN)
    /\ adjoint_value' = Append(adjoint_value, NaN)
    /\ UNCHANGED <<walk, calls>>

\* x.assign(val), on a leaf
Assign ==
    /\ pc = "idle"
    /\ \E n \in Nodes, v \in Vals :
        /\ op[n] = "Val" /\ children[n] = <<>>
        /\ eval_value[n] # Num(v)
        /\ eval_value' = [eval_value EXCEPT ![n] = Num(v)]
    /\ done' = "none" /\ result' = NaN /\ prev' = NoCall
    /\ UNCHANGED <<graph, forward_value, adjoint_value, walk, pc, self, wrt, passes>>

----------------------------------------------------------------------------
(* Graph builder *)

\* Var.add_child, on a graph <<op, children, parents>> given as a record
add_child(g, new, child) ==
    [g EXCEPT !.children[new] = Append(@, child),
              !.parents[child] = Append(@, new)]

\* the state of the three node slots and the graph after Var(name); new.op = Op(new)
WithNode(g, o) ==
    [op |-> Append(g.op, o),
     children |-> Append(g.children, <<>>),
     parents |-> Append(g.parents, <<>>)]

\* what the builder does to the operator of its second operand:
\* __pow__ sets power.op = Val(power), the other builders leave it alone
ResolvedOp(o, old) == IF o = "Pow" THEN "Val" ELSE old

\* self <o> other, with other a node: __add__, __sub__, __mul__, __truediv__, __pow__
BuildNode(ops, maxn) ==
    /\ pc = "idle"
    /\ Len(op) < maxn
    /\ \E o \in ops \ {"Neg"}, a \in Nodes, b \in Nodes :
        LET new == Len(op) + 1
            g0 == WithNode([op |-> op, children |-> children, parents |-> parents], o)
            g1 == add_child(g0, new, a)
            g2 == [g1 EXCEPT !.op[b] = ResolvedOp(o, @)]
            g3 == add_child(g2, new, b)
        IN /\ op' = g3.op
           /\ children' = g3.children
           /\ parents' = g3.parents
    /\ eval_value' = Append(eval_value, NaN)
    /\ forward_value' = Append(forward_value, NaN)
    /\ adjoint_value' = Append(adjoint_value, NaN)
    /\ UNCHANGED <<walk, calls>>

\* self <o> literal: Var.resolve wraps the number in a fresh assigned leaf
BuildLiteral(ops, maxn) ==
    /\ pc = "idle"
    /\ Len(op) + 1 < maxn
    /\ \E o \in ops \ {"Neg"}, a \in Nodes, v \in Literals :
        LET lit == Len(op) + 1
            new == Len(op) + 2
            g0 == WithNode([op |-> op, children |-> children, parents |-> parents], "Val")
            g1 == add_child(WithNode(g0, o), new, a)
            g2 == [g1 EXCEPT !.op[lit] = ResolvedOp(o, @)]
            g3 == add_child(g2, new, lit)
        IN /\ op' = g3.op
           /\ children' = g3.children
           /\ parents' = g3.parents
           /\ eval_value' = eval_value \o <<Num(v), NaN>>
    /\ forward_value' = forward_value \o <<NaN, NaN>>
    /\ adjoint_value' = adjoint_value \o <<NaN, NaN>>
    /\ UNCHANGED <<walk, calls>>

\* -self: __neg__
BuildNeg(maxn) ==
    /\ pc = "idle"
    /\ Len(op) < maxn
    /\ \E a \in Nodes :
        LET new == Len(op) + 1
            g0 == WithNode([op |-> op, children |-> children, parents |-> parents], "Neg")
            g1 == add_child(g0, new, a)
        IN /\ op' = g1.op
           /\ children' = g1.children
           /\ parents' = g1.parents
    /\ eval_value' = Append(eval_value, NaN)
    /\ forward_value' = Append(forward_value, NaN)
    /\ adjoint_value' = Append(adjoint_value, NaN)
    /\ UNCHANGED <<walk, calls>>

----------------------------------------------------------------------------
(* Operators (Op subclasses) over Add/Sub/Neg/Mult.  Div and Pow leave the  *)
(* integers; graphs holding them are built but not evaluated here.         *)

\* Op.eval: the new eval_value of node n
OpEval(n) ==
    LET c == children[n] IN
    CASE op[n] = "Val"  -> eval_value[n]
      [] op[n] = "Add"  -> FAdd(eval_value[c[1]], eval_value[c[2]])
      [] op[n] = "Sub"  -> FSub(eval_value[c[1]], eval_value[c[2]])
      [] op[n] = "Neg"  -> FNeg(eval_value[c[1]])
      [] op[n] = "Mult" -> FMul(eval_value[c[1]], eval_value[c[2]])

\* Op.forward: the new forward_value of node n, given the forward values fv
OpForward(n, w, fv) ==
    LET c == children[n] IN
    CASE op[n] = "Val"  -> IF n = w THEN Num(1) ELSE Num(0)
      [] op[n] = "Add"  -> FAdd(fv[c[1]], fv[c[2]])
      [] op[n] = "Sub"  -> FSub(fv[c[1]], fv[c[2]])
      [] op[n] = "Neg"  -> FNeg(fv[c[1]])
      [] op[n] = "Mult" -> FAdd(FMul(fv[c[1]], eval_value[c[2]]),
                                FMul(eval_value[c[1]], fv[c[2]]))

\* accum_grad with = in place of +=
accum_grad_overwrite(adj, child, contrib) ==
    [adj EXCEPT ![child] = contrib]

\* Op.accum_grad on the adjoints adj
accum_grad(adj, child, contrib) ==
    [adj EXCEPT ![child] = FAdd(@, contrib)]

\* the contribution Op._backward of node n hands to its i-th child
Contrib(n, i, adj) ==
    LET c == children[n] IN
    CASE op[n] = "Add"  -> adj[n]
      [] op[n] = "Sub"  -> IF i = 1 THEN adj[n] ELSE FNeg(adj[n])
      [] op[n] = "Neg"  -> FNeg(adj[n])
      [] op[n] = "Mult" -> IF i = 1 THEN FMul(adj[n], eval_value[c[2]])
                                    ELSE FMul(adj[n], eval_value[c[1]])

\* Op._backward of node n: one accum_grad per child, in order
OpBackward(n, adj) ==
    LET c == children[n] IN
    IF op[n] = "Val" THEN adj
    ELSE IF Len(c) = 1 THEN accum_grad(adj, c[1], Contrib(n, 1, adj))
    ELSE LET a1 == accum_grad(adj, c[1], Contrib(n, 1, adj))
         IN accum_grad(a1, c[2], Contrib(n, 2, a1))

----------------------------------------------------------------------------
(* Traversals *)

DfsPcs == {"value", "fwd_value", "fwd", "bwd_value", "bwd_clear"}
EvalPcs == {"value", "fwd_value", "bwd_value"}

\* the children a traversal pushes: those not seen, each once
RECURSIVE Unseen(_, _)
Unseen(kids, s) ==
    IF kids = <<>> THEN <<>>
    ELSE IF Head(kids) \in s THEN Unseen(Tail(kids), s)
    ELSE <<Head(kids)>> \o Unseen(Tail(kids), s \cup {Head(kids)})

\* the first statements of Var.dfs
StartDfs(r) ==
    /\ pending' = << <<r, FALSE>> >>
    /\ seen' = {r}
    /\ yielded' = {}
    /\ current' = 0
    /\ order' = <<>>

\* the body of the loop that consumes dfs(), for the node dfs yields
Visit(node) ==
    /\ eval_value' = IF pc \in EvalPcs
                     THEN [eval_value EXCEPT ![node] = OpEval(node)]
                     ELSE eval_value
    /\ forward_value' = IF pc = "fwd"
                        THEN [forward_value EXCEPT ![node] = OpForward(node, wrt, forward_value)]
                        ELSE forward_value
    /\ adjoint_value' = IF pc = "bwd_clear"
                        THEN [adjoint_value EXCEPT ![node] = Num(0)]
                        ELSE adjoint_value

\* one iteration of the while loop of Var.dfs
DfsStep ==
    /\ pc \in DfsPcs
    /\ pending # <<>>
    /\ LET top == pending[Len(pending)]
           cur == top[1]
           expanded == top[2]
           rest == SubSeq(pending, 1, Len(pending) - 1)
           push == Unseen(children[cur], seen)
       IN IF expanded
          THEN /\ Visit(cur)
               /\ order' = Append(order, cur)
               /\ pending' = rest
               /\ seen' = seen
          ELSE IF children[cur] # <<>>
          THEN /\ pending' = rest \o << <<cur, TRUE>> >>
                                  \o [i \in 1..Len(push) |-> <<push[i], FALSE>>]
               /\ seen' = seen \cup Range(push)
               /\ UNCHANGED <<values, order>>
          ELSE /\ Visit(cur)
               /\ order' = Append(order, cur)
               /\ pending' = rest
               /\ seen' = seen
    /\ UNCHANGED <<graph, yielded, current, calls>>

\* the gate with any() in place of all()
ReadyAny(node, done_set) ==
    parents[node] = <<>> \/ \E p \in Range(parents[node]) : p \in done_set

\* the gate of Var.bfs
Ready(node, done_set) ==
    parents[node] = <<>> \/ \A p \in Range(parents[node]) : p \in done_set

\* Var.bfs: the loop test and current = pending.pop()
BfsPop ==
    /\ pc = "bwd_bfs"
    /\ current = 0
    /\ pending # <<>>
    /\ current' = pending[Len(pending)]
    /\ pending' = SubSeq(pending, 1, Len(pending) - 1)
    /\ UNCHANGED <<graph, values, seen, yielded, order, calls>>

\* Var.bfs: the rest of the iteration, with backward's loop body at the yield
BfsStep ==
    /\ pc = "bwd_bfs"
    /\ current # 0
    /\ LET push == Unseen(children[current], seen)
       IN IF Ready(current, yielded)
          THEN /\ adjoint_value' = OpBackward(current, adjoint_value)
               /\ order' = Append(order, current)
               /\ yielded' = yielded \cup {current}
               /\ pending' = pending \o push
               /\ seen' = seen \cup Range(push)
          ELSE /\ pending' = <<current>> \o pending
               /\ UNCHANGED <<adjoint_value, order, yielded, seen>>
    /\ current' = 0
    /\ UNCHANGED <<graph, eval_value, forward_value, calls>>

----------------------------------------------------------------------------
(* Passes *)

Snapshot ==
    IF done = "none" THEN NoCall
    ELSE [call |-> done, self |-> self, wrt |-> wrt, val |-> result,
          adj |-> IF done = "backward" THEN adjoint_value ELSE <<>>]

Call(r, w, at, maxp) ==
    /\ pc = "idle"
    /\ passes < maxp
    /\ passes' = passes + 1
    /\ pc' = at
    /\ self' = r
    /\ wrt' = w
    /\ prev' = Snapshot
    /\ done' = "none"
    /\ result' = NaN
    /\ StartDfs(r)
    /\ UNCHANGED <<graph, values>>

\* r.value()
CallValue == \E r \in Nodes : Call(r, 0, "value", MaxPasses)

\* r.forward(w)
CallForward == \E r \in Nodes, w \in Nodes : Call(r, w, "fwd_value", MaxPasses)

\* r.backward()
CallBackward(maxp) == \E r \in Nodes : Call(r, 0, "bwd_value", maxp)

Return(call, val) ==
    /\ pc' = "idle"
    /\ done' = call
    /\ result' = val
    /\ pending' = <<>> /\ seen' = {} /\ yielded' = {}
    /\ UNCHANGED <<graph, values, current, order, self, wrt, prev, passes>>

\* value(): the loop over dfs() is over; return self.eval_value
ValueReturn ==
    /\ pc = "value" /\ pending = <<>>
    /\ Return("value", eval_value[self])

\* forward(): self.value() has returned; start the loop over dfs()
ForwardWalk ==
    /\ pc = "fwd_value" /\ pending = <<>>
    /\ pc' = "fwd"
    /\ StartDfs(self)
    /\ UNCHANGED <<graph, values, self, wrt, done, result, prev, passes>>

\* forward(): return self.forward_value
ForwardReturn ==
    /\ pc = "fwd" /\ pending = <<>>
    /\ Return("forward", forward_value[self])

\* backward(): self.value() has returned; clear_grad starts its loop
BackwardClear ==
    /\ pc = "bwd_value" /\ pending = <<>>
    /\ pc' = "bwd_clear"
    /\ StartDfs(self)
    /\ UNCHANGED <<graph, values, self, wrt, done, result, prev, passes>>

\* backward(): clear_grad has returned; self.op.backward(True); start bfs()
BackwardWalk ==
    /\ pc = "bwd_clear" /\ pending = <<>>
    /\ pc' = "bwd_bfs"
    /\ adjoint_value' = [adjoint_value EXCEPT ![self] = Num(1)]
    /\ pending' = <<self>>
    /\ seen' = {self}
    /\ yielded' = {}
    /\ current' = 0
    /\ order' = <<>>
    /\ UNCHANGED <<graph, eval_value, forward_value, self, wrt, done, result, prev, passes>>

\* backward(): the loop over bfs() is over
BackwardReturn ==
    /\ pc = "bwd_bfs" /\ pending = <<>> /\ current = 0
    /\ Return("backward", NaN)

----------------------------------------------------------------------------
(* Specifications *)

\* the builder alone, every operator, node and literal operands
NextBuild ==
    \/ NewVar(MaxBuildNodes)
    \/ Assign
    \/ BuildNode(AllOps, MaxBuildNodes)
    \/ BuildLiteral(AllOps, MaxBuildNodes)
    \/ BuildNeg(MaxBuildNodes)

SpecBuild == Init /\ [][NextBuild]_vars

\* graphs of Add/Sub/Mult under value()
NextValue ==
    \/ NewVar(MaxEvalNodes)
    \/ Assign
    \/ BuildNode(EvalOps, MaxEvalNodes)
    \/ BuildLiteral(EvalOps, MaxEvalNodes)
    \/ CallValue
    \/ DfsStep
    \/ ValueReturn

SpecValue == Init /\ [][NextValue]_vars

\* graphs of Add/Sub/Neg/Mult under backward()
NextBackward ==
    \/ NewVar(MaxNodes)
    \/ Assign
    \/ BuildNode(ArithOps, MaxNodes)
    \/ BuildLiteral(ArithOps, MaxNodes)
    \/ BuildNeg(MaxNodes)
    \/ CallBackward(MaxBackwardPasses)
    \/ DfsStep
    \/ BackwardClear
    \/ BackwardWalk
    \/ BfsPop
    \/ BfsStep
    \/ BackwardReturn

SpecBackward == Init /\ [][NextBackward]_vars

\* graphs of Add/Sub/Mult under repeated backward()
NextAdjoint ==
    \/ NewVar(MaxEvalNodes)
    \/ Assign
    \/ BuildNode(EvalOps, MaxEvalNodes)
    \/ BuildLiteral(EvalOps, MaxEvalNodes)
    \/ CallBackward(MaxPasses)
    \/ DfsStep
    \/ BackwardClear
    \/ BackwardWalk
    \/ BfsPop
    \/ BfsStep
    \/ BackwardReturn

SpecAdjoint == Init /\ [][NextAdjoint]_vars

\* graphs of Add/Sub/Neg/Mult under all three passes
Step ==
    \/ DfsStep
    \/ ValueReturn
    \/ ForwardWalk
    \/ ForwardReturn
    \/ BackwardClear
    \/ BackwardWalk
    \/ BfsPop
    \/ BfsStep
    \/ BackwardReturn

Next ==
    \/ NewVar(MaxNodes)
    \/ Assign
    \/ BuildNode(ArithOps, MaxNodes)
    \/ BuildLiteral(ArithOps, MaxNodes)
    \/ BuildNeg(MaxNodes)
    \/ CallValue
    \/ CallForward
    \/ CallBackward(MaxPasses)
    \/ Step

Spec == Init /\ [][Next]_vars

\* a running pass is never suspended: its next loop iteration always runs
FairSpec == Spec /\ WF_vars(Step)

----------------------------------------------------------------------------
(* Properties *)

Leaves(r) == {n \in Reach(r) : children[n] = <<>>}
Assigned(r) == \A n \in Leaves(r) : ~eval_value[n].nan
Before(i) == {order[j] : j \in 1..(i - 1)}
NoRepeat == \A i, j \in 1..Len(order) : order[i] = order[j] => i = j

\* C1: dfs() yields every node reachable from the root exactly once, and a
\* node only after all of its children (post-order).
DfsPostOrder ==
    /\ pc \in DfsPcs =>
        /\ NoRepeat
        /\ \A i \in 1..Len(order) : Range(children[order[i]]) \subseteq Before(i)
    /\ (pc \in DfsPcs /\ pending = <<>>) => Range(order) = Reach(self)

\* C2: bfs() never yields a node before all of that node's parents, and
\* yields no node twice (so a node's adjoint is final when it distributes).
BfsParentsFirst ==
    pc = "bwd_bfs" =>
        /\ NoRepeat
        /\ Range(order) = yielded
        /\ \A i \in 1..Len(order) : Range(parents[order[i]]) \subseteq Before(i)

\* C2 witness: a finished gated walk that yielded a node with two different
\* parents
BfsSharedNodeYielded ==
    /\ pc = "bwd_bfs" /\ pending = <<>> /\ current = 0
    /\ \E i \in 1..Len(order) : Cardinality(Range(parents[order[i]])) >= 2

\* C3: every pass that is started returns.
PassesTerminate == (pc # "idle") ~> (pc = "idle")

\* the value of node n's expression on the current leaf values
RECURSIVE Direct(_)
Direct(n) ==
    LET c == children[n] IN
    CASE op[n] = "Val"  -> eval_value[n]
      [] op[n] = "Add"  -> FAdd(Direct(c[1]), Direct(c[2]))
      [] op[n] = "Sub"  -> FSub(Direct(c[1]), Direct(c[2]))
      [] op[n] = "Neg"  -> FNeg(Direct(c[1]))
      [] op[n] = "Mult" -> FMul(Direct(c[1]), Direct(c[2]))

\* C4: over assigned leaves, value() returns the direct evaluation of the
\* root's expression and leaves every reachable node holding the direct
\* evaluation of its own.
ValueIsDirect ==
    (pc = "idle" /\ done = "value" /\ Assigned(self)) =>
        /\ result = Direct(self)
        /\ \A n \in Reach(self) : eval_value[n] = Direct(n)

\* C5: f.forward(x) returns the number x.grad() holds after f.backward(), for
\* a parentless root f and a leaf x reachable from it, at the same leaf values.
ForwardEqualsBackward ==
    ( /\ pc = "idle" /\ done = "backward"
      /\ prev.call = "forward" /\ prev.self = self
      /\ parents[self] = <<>>
      /\ prev.wrt \in Leaves(self)
      /\ Assigned(self) )
    => prev.val = adjoint_value[prev.wrt]

\* the parent links of node y: <<p, i>> with y the i-th child of p
Links(y) == {l \in Nodes \X {1, 2} : l[2] <= Len(children[l[1]]) /\ children[l[1]][l[2]] = y}

RECURSIVE SumContrib(_)
SumContrib(ls) ==
    IF ls = {} THEN Num(0)
    ELSE LET l == CHOOSE x \in ls : TRUE
         IN FAdd(Contrib(l[1], l[2], adjoint_value), SumContrib(ls \ {l}))

\* C6: in backward(), once a node has been yielded its adjoint is the sum of
\* the contributions of all its parent links (1 for the root).
AdjointIsSum ==
    pc = "bwd_bfs" =>
        \A y \in yielded :
            adjoint_value[y] = IF y = self THEN Num(1) ELSE SumContrib(Links(y))

\* C6 witness: a finished backward() in which a node with two parent links
\* holds a number
SharedAdjointSummed ==
    /\ pc = "bwd_bfs" /\ pending = <<>> /\ current = 0
    /\ \E y \in yielded : Cardinality(Links(y)) >= 2 /\ ~adjoint_value[y].nan
                          /\ adjoint_value[y].num # 0

\* C7: over assigned leaves, two value() calls of the same root in a row, no
\* assign in between, return the same result.
ValueIdempotent ==
    ( /\ pc = "idle" /\ done = "value"
      /\ prev.call = "value" /\ prev.self = self
      /\ Assigned(self) )
    => result = prev.val

\* the forward values a forward pass in this order leaves when it starts
\* from forward values fv
RECURSIVE Replay(_, _)
Replay(seq, fv) ==
    IF seq = <<>> THEN fv
    ELSE Replay(Tail(seq), [fv EXCEPT ![Head(seq)] = OpForward(Head(seq), wrt, fv)])

\* C8: forward(b) right after forward(a), a and b leaves, returns what
\* forward(b) returns on the same graph with no forward pass run before.
ForwardIsFresh ==
    ( /\ pc = "idle" /\ done = "forward"
      /\ prev.call = "forward" /\ prev.self = self
      /\ op[wrt] = "Val" /\ op[prev.wrt] = "Val"
      /\ Assigned(self) )
    => result = Replay(order, [n \in Nodes |-> NaN])[self]

\* C9: for a node n not reachable from f, f.forward(n) returns 0 and n.grad()
\* is 0 after f.backward().
UnreachableIsZero ==
    /\ (pc = "idle" /\ done = "forward" /\ Assigned(self) /\ wrt \notin Reach(self))
        => result = Num(0)
    /\ (pc = "idle" /\ done = "backward" /\ Assigned(self))
        => \A n \in Nodes \ Reach(self) : adjoint_value[n] = Num(0)

RECURSIVE Copies(_, _)
Copies(x, n) == IF n = 0 THEN <<>> ELSE <<x>> \o Copies(x, n - 1)

\* C10: a builder call leaves operator, children and value of every existing
\* node unchanged, and only appends the new node to its operands' parents.
BuildersPreserve ==
    [][Len(op') > Len(op) =>
        \A n \in Nodes :
            /\ op'[n] = op[n]
            /\ children'[n] = children[n]
            /\ eval_value'[n] = eval_value[n]
            /\ forward_value'[n] = forward_value[n]
            /\ adjoint_value'[n] = adjoint_value[n]
            /\ \E k \in 0..2 : parents'[n] = parents[n] \o Copies(Len(op'), k)]_vars

\* C11: when the gated walk of backward() starts, every node reachable from
\* the root has adjoint 0 and the root 1; and two backward() calls of the same
\* root in a row, no assign in between, leave the same adjoint on every
\* reachable node.
AdjointsResetEachPass ==
    /\ (pc = "bwd_bfs" /\ yielded = {} /\ current = 0 /\ pending = <<self>>)
        => \A n \in Reach(self) :
            adjoint_value[n] = IF n = self THEN Num(1) ELSE Num(0)
    /\ (pc = "idle" /\ done = "backward" /\ prev.call = "backward" /\ prev.self = self)
        => \A n \in Reach(self) : adjoint_value[n] = prev.adj[n]

====
